---- MODULE Spec2Model ----
(***************************************************************************)
(* GlobalLocalStorage: the storage core (src/index.html) and the client    *)
(* proxy library (src/lib.mjs).                                            *)
(*                                                                         *)
(* One proxy runs in each tenant page (the tenant is the page's origin).   *)
(* Every proxy talks to the core through its own iframe: toCore[p] and      *)
(* toProxy[p] are the two postMessage directions, bcast[p] the messages of  *)
(* the BroadcastChannel not yet delivered to the proxy.  All cores share    *)
(* one IndexedDB object store, `store`.                                     *)
(***************************************************************************)
EXTENDS Integers, Sequences, FiniteSets, TLC

(* ------------------------------ bounds -------------------------------- *)
\* calls of the library that allocate a request id, over all proxies
MaxRequests == 2
\* last instant the clock reaches (ms)
MaxNow == 2000

(* --------------------------- program constants ------------------------- *)
\* `ttl * 1000`: a ttl is given in seconds, expiresAt is in milliseconds
MsPerSecond == 1000

(* ------------------------------ input sets ----------------------------- *)
\* the tenants (origins); one proxy per tenant
Origins == {"a", "b"}
\* the keys, in the order an IndexedDB cursor or getAll visits them
KeyOrder == <<"x", "y">>
Keys == {KeyOrder[i] : i \in DOMAIN KeyOrder}
Values == {"v1", "v2"}
Wildcard == "*"
\* JavaScript null / undefined as a value
Null == "null"
Undefined == "undefined"

\* An options object is a function whose domain is the set of the
\* properties it has: <<>> is {}, [ttl |-> 1] is {ttl: 1}.
NoOptions == <<>>
AclChoices ==
    { [read |-> {"a"}, write |-> {"a", "b"}],
      [write |-> {Wildcard}],
      [write |-> {}] }
SetOptions ==
    {NoOptions, [ttl |-> 1]}
        \cup {[acl |-> c] : c \in AclChoices}
        \cup {[acl |-> [read |-> {"a"}, write |-> {"a", "b"}], ttl |-> 1]}
\* what the applications pass to the library in the whole-system
\* specification
LibKeys == {"x"}
LibValues == {"v1"}
LibSetOptions == {NoOptions, [ttl |-> 1]}

(* ------------------------------- the core ------------------------------ *)
\* Mutant: the wildcard is not honoured.
hasPermissionNoWildcard(aclList, origin) == origin \in aclList

\* Mutant: every origin is let through.
hasPermissionAlways(aclList, origin) == TRUE

hasPermission(aclList, origin) ==
    Wildcard \in aclList \/ origin \in aclList

\* Error thrown by a failed permission check; message names origin,
\* permission and key.
PermissionError(perm, origin, key) ==
    [name |-> "Error", perm |-> perm, origin |-> origin, key |-> key]
NoError == [name |-> "", perm |-> "", origin |-> "", key |-> ""]

\* store: a function from the keys present to their items
Put(st, key, item) ==
    [k \in DOMAIN st \cup {key} |-> IF k = key THEN item ELSE st[k]]
Delete(st, key) == [k \in DOMAIN st \ {key} |-> st[k]]

ChangeEvent(key, action) == [key |-> key, action |-> action]

\* item.expiresAt && Date.now() > item.expiresAt   (null is 0: both falsy)
IsExpired(item, t) == item.expiresAt # 0 /\ t > item.expiresAt

\* Mutant: the origin is added to the write list on an update too.
NewAclAlwaysNamesOrigin(st, key, options, origin) ==
    LET acl == IF "acl" \in DOMAIN options THEN options.acl ELSE <<>>
        read == IF "read" \in DOMAIN acl THEN acl.read ELSE {Wildcard}
        write == IF "write" \in DOMAIN acl THEN acl.write ELSE {origin}
    IN [read |-> read, write |-> write \cup {origin}]

\* The ACL dbSet computes from the options and the requesting origin.
NewAcl(st, key, options, origin) ==
    LET acl == IF "acl" \in DOMAIN options THEN options.acl ELSE <<>>
        read == IF "read" \in DOMAIN acl THEN acl.read ELSE {Wildcard}
        write == IF "write" \in DOMAIN acl THEN acl.write ELSE {origin}
    IN [read |-> read,
        write |-> IF key \in DOMAIN st THEN write ELSE write \cup {origin}]

ExpiresAt(options, t) ==
    LET ttl == IF "ttl" \in DOMAIN options THEN options.ttl ELSE 0
    IN IF ttl # 0 THEN t + ttl * MsPerSecond ELSE 0

\* Result of dbSet: the store after the transaction, the events posted and
\* the error thrown (NoError when it returns).
dbSet(st, key, value, options, origin, t) ==
    IF key \in DOMAIN st /\ ~hasPermission(st[key].acl.write, origin)
    THEN [store |-> st, events |-> <<>>,
          error |-> PermissionError("write", origin, key)]
    ELSE [store |-> Put(st, key,
                        [value |-> value,
                         acl |-> NewAcl(st, key, options, origin),
                         expiresAt |-> ExpiresAt(options, t)]),
          events |-> <<ChangeEvent(key, "set")>>,
          error |-> NoError]

\* Mutant: a removal is announced even when there was nothing to remove.
dbRemoveAlwaysAnnounces(st, key, origin) ==
    IF key \in DOMAIN st /\ ~hasPermission(st[key].acl.write, origin)
    THEN [store |-> st, events |-> <<>>,
          error |-> PermissionError("write", origin, key)]
    ELSE [store |-> Delete(st, key),
          events |-> <<ChangeEvent(key, "remove")>>,
          error |-> NoError]

dbRemove(st, key, origin) ==
    IF key \notin DOMAIN st
    THEN [store |-> st, events |-> <<>>, error |-> NoError]
    ELSE IF ~hasPermission(st[key].acl.write, origin)
    THEN [store |-> st, events |-> <<>>,
          error |-> PermissionError("write", origin, key)]
    ELSE [store |-> Delete(st, key),
          events |-> <<ChangeEvent(key, "remove")>>,
          error |-> NoError]

\* Mutant: clear wipes every item, whoever may write it.
dbClearAll(st, origin) ==
    [store |-> <<>>,
     events |-> [i \in 1..Len(SelectSeq(KeyOrder, LAMBDA k : k \in DOMAIN st))
                   |-> ChangeEvent(
                         SelectSeq(KeyOrder, LAMBDA k : k \in DOMAIN st)[i],
                         "remove")],
     error |-> NoError]

\* The cursor visits the records in key order; every record the origin may
\* write is deleted and announced.
dbClear(st, origin) ==
    LET doomed == SelectSeq(KeyOrder,
                      LAMBDA k : k \in DOMAIN st
                                 /\ hasPermission(st[k].acl.write, origin))
        gone == {doomed[i] : i \in DOMAIN doomed}
    IN [store |-> [k \in DOMAIN st \ gone |-> st[k]],
        events |-> [i \in DOMAIN doomed |-> ChangeEvent(doomed[i], "remove")],
        error |-> NoError]

\* The error with which tx.done rejects when the transaction has aborted.
AbortError == [name |-> "AbortError", perm |-> "", origin |-> "", key |-> ""]

\* dbClear when its transaction aborts after the cursor has visited n
\* records: the deletes are rolled back, but the events of the records
\* visited were posted inside the loop, before `await tx.done`.
dbClearAborted(st, origin, n) ==
    LET present == SelectSeq(KeyOrder, LAMBDA k : k \in DOMAIN st)
        visited == SubSeq(present, 1, n)
        doomed == SelectSeq(visited,
                      LAMBDA k : hasPermission(st[k].acl.write, origin))
    IN [store |-> st,
        events |-> [i \in DOMAIN doomed |-> ChangeEvent(doomed[i], "remove")],
        error |-> AbortError]

\* Mutant: every key is listed, whoever may read it.
dbKeysOfAll(st, origin, t) ==
    SelectSeq(KeyOrder, LAMBDA k : k \in DOMAIN st)

\* Mutant: the scan skips the items whose expiresAt has passed.
dbKeysSkipExpired(st, origin, t) ==
    SelectSeq(KeyOrder,
        LAMBDA k : k \in DOMAIN st
                   /\ hasPermission(st[k].acl.read, origin)
                   /\ ~IsExpired(st[k], t))

\* readableKeys, in getAll's order.  The scan does not look at expiresAt:
\* the instant t is not used.
dbKeys(st, origin, t) ==
    SelectSeq(KeyOrder,
        LAMBDA k : k \in DOMAIN st /\ hasPermission(st[k].acl.read, origin))

\* Mutant: the permission check comes before the expiry check.
dbGetOutcomePermissionFirst(st, key, origin, t) ==
    IF key \notin DOMAIN st THEN "null"
    ELSE IF ~hasPermission(st[key].acl.read, origin) THEN "denied"
    ELSE IF IsExpired(st[key], t) THEN "expired"
    ELSE "value"

\* What dbGet decides from the item it has read: "null" (absent), "expired"
\* (it goes on to delete), "value" or "denied".  The expiry check comes
\* before the permission check.
dbGetOutcome(st, key, origin, t) ==
    IF key \notin DOMAIN st THEN "null"
    ELSE IF IsExpired(st[key], t) THEN "expired"
    ELSE IF hasPermission(st[key].acl.read, origin) THEN "value"
    ELSE "denied"

(* ------------------------------ messages ------------------------------- *)
\* Request posted by a proxy.  A field a request does not carry is Undefined
\* (NoOptions for options).  `queued` is history, not part of the message:
\* the request has waited in the requestQueue.
Request(action, key, value, options, requestId) ==
    [action |-> action, key |-> key, value |-> value, options |-> options,
     requestId |-> requestId, queued |-> FALSE]

\* Mutant: the core answers with the id that follows the request's.
ResponseWithNextId(requestId, value, keyList, error, hist) ==
    [requestId |-> requestId + 1, value |-> value, keys |-> keyList,
     error |-> error, hist |-> hist]

\* Response posted by the core.  `value` is the value of getItem (Null when
\* absent) and Undefined otherwise; `keys` is the array keys() returns.
\* `hist` is history, not part of the message: the request answered and what
\* its handler read under the key.
Response(requestId, value, keyList, error, hist) ==
    [requestId |-> requestId, value |-> value, keys |-> keyList,
     error |-> error, hist |-> hist]

\* History of a handler: the action and key of its request; whether the
\* item it read under the key was "absent", "live" or "expired" at the
\* instant t; whether the read list of that item names the origin or the
\* wildcard; the number of sets committed to the key so far; the options of
\* the request (filled in for a setItem).
Hist(action, key, origin, st, t, wv) ==
    [action |-> action, key |-> key, options |-> NoOptions,
     found |-> IF key \notin DOMAIN st THEN "absent"
               ELSE IF st[key].expiresAt # 0 /\ t > st[key].expiresAt
               THEN "expired" ELSE "live",
     mayRead |-> key \in DOMAIN st
                 /\ ({Wildcard, origin} \cap st[key].acl.read) # {},
     ver |-> IF key \in DOMAIN wv THEN wv[key] ELSE 0]

\* A change event on the wire to one proxy.  `by` and `ver` are history: the
\* origin whose request caused it and, for a set, the number of sets
\* committed to the key up to and including it.
Stamp(ev, wv, by) ==
    [key |-> ev.key, action |-> ev.action, by |-> by,
     ver |-> IF ev.action = "set" THEN wv[ev.key] ELSE 0]

(* -------------------------------- state -------------------------------- *)
VARIABLES
    store,              \* the IndexedDB object store: key -> item
    now,                \* Date.now()
    coreGets,           \* dbGet calls between their read and their delete
    tx,                 \* readwrite transactions open on the store, oldest
                        \* first (used where dbSet, dbRemove and dbClear are
                        \* followed request by request)
    toCore,             \* per proxy: requests posted to the core, in order
    toProxy,            \* per proxy: responses posted by the core, in order
    bcast,              \* per proxy: change events not yet delivered
    isBrowser,          \* per proxy: window and document exist
    coreState,          \* lib.mjs module state, one copy per proxy ...
    defaultOptions,
    requestQueue,
    pendingRequests,    \* requestId -> the call waiting on it
    requestIdCounter,
    cache,              \* key -> cached value
    channel,            \* the BroadcastChannel has been created
    iframe,             \* "none", "loading", "loaded", "errored"
    promises,           \* history: requestId + 1 -> how the call stands
    wver,               \* history: key -> number of sets committed to it
    setBy,              \* history: key -> origin of the last set of the item
    readVer,            \* history: wver of the key when a cached value was read
    seenVer,            \* history: greatest ver of the set events received
                        \*          that another origin's request caused
    lastHit             \* history: what the last getItem served from cache

coreVars == <<store, coreGets, tx, wver, setBy>>
wireVars == <<toCore, toProxy, bcast>>
libVars == <<coreState, defaultOptions, requestQueue, pendingRequests,
             requestIdCounter, cache, channel, iframe>>
histVars == <<promises, readVer, seenVer, lastHit>>
vars == <<now, isBrowser, coreVars, wireVars, libVars, histVars>>

NoHit == [key |-> "", value |-> "", readVer |-> 0, seenVer |-> 0]

Init ==
    /\ store = <<>>
    /\ now = 0
    /\ coreGets = {}
    /\ tx = <<>>
    /\ toCore = [p \in Origins |-> <<>>]
    /\ toProxy = [p \in Origins |-> <<>>]
    /\ bcast = [p \in Origins |-> <<>>]
    /\ isBrowser \in [Origins -> BOOLEAN]
    /\ coreState = [p \in Origins |-> "uninitialized"]
    /\ defaultOptions = [p \in Origins |-> NoOptions]
    /\ requestQueue = [p \in Origins |-> <<>>]
    /\ pendingRequests = [p \in Origins |-> <<>>]
    /\ requestIdCounter = [p \in Origins |-> 0]
    /\ cache = [p \in Origins |-> <<>>]
    /\ channel = [p \in Origins |-> FALSE]
    /\ iframe = [p \in Origins |-> "none"]
    /\ promises = [p \in Origins |-> <<>>]
    /\ wver = [k \in Keys |-> 0]
    /\ setBy = [k \in Keys |-> ""]
    /\ readVer = [p \in Origins |-> [k \in Keys |-> 0]]
    /\ seenVer = [p \in Origins |-> [k \in Keys |-> 0]]
    /\ lastHit = [p \in Origins |-> NoHit]

\* library calls that have allocated a request id so far
RECURSIVE Sum(_, _)
Sum(f, S) ==
    IF S = {} THEN 0
    ELSE LET q == CHOOSE q \in S : TRUE IN f[q] + Sum(f, S \ {q})
Issued == Sum(requestIdCounter, Origins)

\* wver after a set is committed to the key.  History is kept of the sets of
\* library calls only: there are never more of them than calls issued.
CountSet(wv, key) ==
    IF wv[key] < Issued THEN [wv EXCEPT ![key] = @ + 1] ELSE wv

(* ------------------------- the core's listener ------------------------- *)
\* channel.postMessage: every open BroadcastChannel of the proxies gets the
\* events, in order.
Publish(events, wv, by) ==
    bcast' = [q \in Origins |->
                IF channel[q]
                THEN bcast[q]
                         \o [i \in DOMAIN events |-> Stamp(events[i], wv, by)]
                ELSE bcast[q]]

\* setBy once the store is st: the items that are gone have no setter
Setters(st, by) == [k \in Keys |-> IF k \in DOMAIN st THEN by[k] ELSE ""]

\* event.source.postMessage(response, event.origin)
Respond(p, response) ==
    toProxy' = [toProxy EXCEPT ![p] = Append(@, response)]

\* The listener's switch, one action per case.  p is event.origin and m is
\* event.data; where the message comes from (toCore) is left to the caller.

\* case 'setItem'
CoreSetItem(p, m) ==
    /\ m.action = "setItem"
    /\ LET r == dbSet(store, m.key, m.value, m.options, p, now)
       IN /\ store' = r.store
          /\ wver' = IF r.error = NoError THEN CountSet(wver, m.key) ELSE wver
          /\ setBy' = IF r.error = NoError
                      THEN [setBy EXCEPT ![m.key] = p] ELSE setBy
          /\ Publish(r.events, wver', p)
          /\ Respond(p, Response(m.requestId, Undefined, <<>>, r.error,
                                 [Hist("setItem", m.key, p, store, now, wver)
                                     EXCEPT !.options = m.options]))
    /\ UNCHANGED <<now, isBrowser, coreGets, tx, libVars, histVars>>

\* case 'getItem', up to the result of db.get: the item is absent, readable,
\* denied, or expired; an expired item is deleted in a later transaction.
CoreGetItem(p, m) ==
    /\ m.action = "getItem"
    /\ LET o == dbGetOutcome(store, m.key, p, now)
           h == Hist("getItem", m.key, p, store, now, wver)
       IN CASE o = "expired" ->
                 /\ coreGets' = coreGets \cup
                        {[origin |-> p, requestId |-> m.requestId,
                          key |-> m.key, hist |-> h]}
                 /\ UNCHANGED toProxy
            [] o = "null" ->
                 /\ Respond(p, Response(m.requestId, Null, <<>>, NoError, h))
                 /\ UNCHANGED coreGets
            [] o = "value" ->
                 /\ Respond(p, Response(m.requestId, store[m.key].value, <<>>,
                                        NoError, h))
                 /\ UNCHANGED coreGets
            [] o = "denied" ->
                 /\ Respond(p, Response(m.requestId, Undefined, <<>>,
                                        PermissionError("read", p, m.key), h))
                 /\ UNCHANGED coreGets
    /\ UNCHANGED <<now, isBrowser, store, tx, wver, setBy, bcast, libVars,
                   histVars>>

\* dbGet, lines 46-48: db.delete, the broadcast and `return null`
CoreGetDelete(g) ==
    /\ g \in coreGets
    /\ coreGets' = coreGets \ {g}
    /\ store' = Delete(store, g.key)
    /\ setBy' = Setters(store', setBy)
    /\ Publish(<<ChangeEvent(g.key, "remove")>>, wver, g.origin)
    /\ Respond(g.origin, Response(g.requestId, Null, <<>>, NoError, g.hist))
    /\ UNCHANGED <<now, isBrowser, tx, wver, toCore, libVars, histVars>>

\* case 'removeItem'
CoreRemoveItem(p, m) ==
    /\ m.action = "removeItem"
    /\ LET r == dbRemove(store, m.key, p)
       IN /\ store' = r.store
          /\ setBy' = Setters(store', setBy)
          /\ Publish(r.events, wver, p)
          /\ Respond(p, Response(m.requestId, Undefined, <<>>, r.error,
                                 Hist("removeItem", m.key, p, store, now, wver)))
    /\ UNCHANGED <<now, isBrowser, coreGets, tx, wver, libVars, histVars>>

\* case 'clear'
CoreClear(p, m) ==
    /\ m.action = "clear"
    /\ LET r == dbClear(store, p)
       IN /\ store' = r.store
          /\ setBy' = Setters(store', setBy)
          /\ Publish(r.events, wver, p)
          /\ Respond(p, Response(m.requestId, Undefined, <<>>, r.error,
                                 Hist("clear", Undefined, p, store, now, wver)))
    /\ UNCHANGED <<now, isBrowser, coreGets, tx, wver, libVars, histVars>>

\* case 'clear', when the transaction aborts after n records
CoreClearAborts(p, m, n) ==
    /\ m.action = "clear"
    /\ n \in 1..Cardinality(DOMAIN store)
    /\ LET r == dbClearAborted(store, p, n)
       IN /\ store' = r.store
          /\ Publish(r.events, wver, p)
          /\ Respond(p, Response(m.requestId, Undefined, <<>>, r.error,
                                 Hist("clear", Undefined, p, store, now, wver)))
    /\ UNCHANGED <<now, isBrowser, coreGets, tx, wver, setBy, libVars,
                   histVars>>

\* case 'keys'
CoreKeys(p, m) ==
    /\ m.action = "keys"
    /\ Respond(p, Response(m.requestId, Undefined, dbKeys(store, p, now),
                           NoError,
                           Hist("keys", Undefined, p, store, now, wver)))
    /\ UNCHANGED <<now, isBrowser, coreVars, bcast, libVars, histVars>>

\* window.addEventListener('message', ...) of the core
CoreOnMessage(p, m) ==
    \/ CoreSetItem(p, m)
    \/ CoreGetItem(p, m)
    \/ CoreRemoveItem(p, m)
    \/ CoreClear(p, m)
    \/ CoreKeys(p, m)

\* the oldest request a proxy has posted reaches the core
CoreReceive(p) ==
    /\ toCore[p] # <<>>
    /\ CoreOnMessage(p, Head(toCore[p]))
    /\ toCore' = [toCore EXCEPT ![p] = Tail(@)]

\* Date.now() advances
Tick ==
    /\ now < MaxNow
    /\ now' = now + MsPerSecond
    /\ UNCHANGED <<isBrowser, coreVars, wireVars, libVars, histVars>>

(* ------------------------- the client library ------------------------- *)
InitConfigs == {<<>>}

\* init gets past its two early returns (lines 26-35)
initRuns(p) == isBrowser[p] /\ coreState[p] \in {"uninitialized", "failed"}

\* The module state init(config) leaves.  Every run of init adds a
\* window 'message' listener; the copies act as one, because the first to
\* see a response deletes its entry from pendingRequests.
init(p, config) ==
    [coreState |-> IF ~isBrowser[p] THEN "failed"
                   ELSE IF initRuns(p) THEN "initializing"
                   ELSE coreState[p],
     defaultOptions |-> IF initRuns(p) /\ "defaultOptions" \in DOMAIN config
                        THEN config.defaultOptions ELSE defaultOptions[p],
     channel |-> initRuns(p) \/ channel[p],
     iframe |-> IF initRuns(p) THEN "loading" ELSE iframe[p]]

\* the application calls init(config)
CallInit(p, config) ==
    /\ coreState' = [coreState EXCEPT ![p] = init(p, config).coreState]
    /\ defaultOptions' =
           [defaultOptions EXCEPT ![p] = init(p, config).defaultOptions]
    /\ channel' = [channel EXCEPT ![p] = init(p, config).channel]
    /\ iframe' = [iframe EXCEPT ![p] = init(p, config).iframe]
    /\ UNCHANGED <<now, isBrowser, coreVars, wireVars, requestQueue,
                   pendingRequests, requestIdCounter, cache, histVars>>

\* Mutant: the queue is drained from its newest entry (pop for shift).
processRequestQueueNewestFirst(queue) ==
    [i \in DOMAIN queue |-> queue[Len(queue) + 1 - i]]

\* Mutant: only the oldest entry is posted (`if` for `while`).
processRequestQueueOldestOnly(queue) ==
    IF queue = <<>> THEN <<>> ELSE <<Head(queue)>>

\* processRequestQueue: the messages posted to the core, in the order they
\* are posted (shift takes the oldest first); the queue is left empty.
processRequestQueue(queue) == queue

\* iframe.onload: coreWindow is set, the state is 'ready' and
\* processRequestQueue posts the queued messages in order.
IframeOnload(p) ==
    /\ iframe[p] = "loading"
    /\ iframe' = [iframe EXCEPT ![p] = "loaded"]
    /\ coreState' = [coreState EXCEPT ![p] = "ready"]
    /\ toCore' = [toCore EXCEPT ![p] = @ \o processRequestQueue(requestQueue[p])]
    /\ requestQueue' = [requestQueue EXCEPT ![p] = <<>>]
    /\ UNCHANGED <<now, isBrowser, coreVars, toProxy, bcast, defaultOptions,
                   pendingRequests, requestIdCounter, cache, channel,
                   histVars>>

\* iframe.onerror: every queued and every pending promise is rejected, the
\* queue and the map are emptied.
IframeOnerror(p) ==
    /\ iframe[p] = "loading"
    /\ iframe' = [iframe EXCEPT ![p] = "errored"]
    /\ coreState' = [coreState EXCEPT ![p] = "failed"]
    /\ promises' = [promises EXCEPT ![p] =
           [i \in DOMAIN @ |->
               IF (i - 1) \in DOMAIN pendingRequests[p]
                  \/ \E j \in DOMAIN requestQueue[p] :
                         requestQueue[p][j].requestId = i - 1
               THEN (IF @[i] = "pending" THEN "rejected" ELSE @[i])
               ELSE @[i]]]
    /\ requestQueue' = [requestQueue EXCEPT ![p] = <<>>]
    /\ pendingRequests' = [pendingRequests EXCEPT ![p] = <<>>]
    /\ UNCHANGED <<now, isBrowser, coreVars, wireVars, defaultOptions,
                   requestIdCounter, cache, channel, readVer, seenVer,
                   lastHit>>

\* Mutant: a request made in the 'failed' state is registered all the same.
sendRequestRejectsNever(state) == FALSE

\* sendRequest, line 126: the promise is rejected at once
sendRequestRejects(state) == state = "failed"

\* Mutant: sendRequest initializes whenever the core is not ready.
sendRequestInitsUnlessReady(p) == coreState[p] # "ready"

\* sendRequest, line 120: init() is called with the default configuration
sendRequestInits(p) == coreState[p] = "uninitialized"

\* sendRequest(message), for the call `call` (its action and key): the
\* implicit init(), then the promise is rejected (state 'failed'), or
\* registered and the message posted ('ready') or queued.
sendRequest(p, message, call) ==
    LET s == IF sendRequestInits(p) THEN init(p, <<>>)
             ELSE [coreState |-> coreState[p],
                   defaultOptions |-> defaultOptions[p],
                   channel |-> channel[p], iframe |-> iframe[p]]
    IN /\ coreState' = [coreState EXCEPT ![p] = s.coreState]
       /\ defaultOptions' = [defaultOptions EXCEPT ![p] = s.defaultOptions]
       /\ channel' = [channel EXCEPT ![p] = s.channel]
       /\ iframe' = [iframe EXCEPT ![p] = s.iframe]
       /\ IF sendRequestRejects(s.coreState)
          THEN /\ promises' = [promises EXCEPT ![p] = Append(@, "rejected")]
               /\ UNCHANGED <<pendingRequests, requestQueue, toCore>>
          ELSE /\ promises' = [promises EXCEPT ![p] = Append(@, "pending")]
               /\ pendingRequests' = [pendingRequests EXCEPT ![p] =
                      [i \in DOMAIN @ \cup {message.requestId} |->
                          IF i = message.requestId THEN call ELSE @[i]]]
               /\ IF s.coreState = "ready"
                  THEN /\ toCore' = [toCore EXCEPT ![p] = Append(@, message)]
                       /\ UNCHANGED requestQueue
                  ELSE /\ requestQueue' =
                              [requestQueue EXCEPT ![p] =
                                  Append(@, [message EXCEPT !.queued = TRUE])]
                       /\ UNCHANGED toCore

\* { ...defaultOptions, ...options }
Spread(defaults, options) ==
    [f \in DOMAIN defaults \cup DOMAIN options |->
        IF f \in DOMAIN options THEN options[f] ELSE defaults[f]]

\* Mutant: the whole cache is dropped (clear for delete).
CacheDeleteAll(c, key) == <<>>

CacheDelete(c, key) == [k \in DOMAIN c \ {key} |-> c[k]]
CacheSet(c, key, value) ==
    [k \in DOMAIN c \cup {key} |-> IF k = key THEN value ELSE c[k]]

Call(action, key) == [action |-> action, key |-> key]

setItem(p, key, value, options) ==
    /\ Issued < MaxRequests
    /\ requestIdCounter' = [requestIdCounter EXCEPT ![p] = @ + 1]
    /\ cache' = [cache EXCEPT ![p] = CacheDelete(@, key)]
    /\ sendRequest(p,
           Request("setItem", key, value, Spread(defaultOptions[p], options),
                   requestIdCounter[p]),
           Call("setItem", key))
    /\ UNCHANGED <<now, isBrowser, coreVars, toProxy, bcast, readVer, seenVer,
                   lastHit>>

\* getItem: served from the cache when the key is there, a request otherwise
\* (whose .then puts the value in the cache, see WindowOnMessage)
getItem(p, key) ==
    IF key \in DOMAIN cache[p]
    THEN /\ lastHit' = [lastHit EXCEPT ![p] =
                [key |-> key, value |-> cache[p][key],
                 readVer |-> readVer[p][key], seenVer |-> seenVer[p][key]]]
         /\ UNCHANGED <<now, isBrowser, coreVars, wireVars, libVars, promises,
                        readVer, seenVer>>
    ELSE /\ Issued < MaxRequests
         /\ requestIdCounter' = [requestIdCounter EXCEPT ![p] = @ + 1]
         /\ sendRequest(p,
                Request("getItem", key, Undefined, NoOptions,
                        requestIdCounter[p]),
                Call("getItem", key))
         /\ UNCHANGED <<now, isBrowser, coreVars, toProxy, bcast, cache,
                        readVer, seenVer, lastHit>>

removeItem(p, key) ==
    /\ Issued < MaxRequests
    /\ requestIdCounter' = [requestIdCounter EXCEPT ![p] = @ + 1]
    /\ cache' = [cache EXCEPT ![p] = CacheDelete(@, key)]
    /\ sendRequest(p,
           Request("removeItem", key, Undefined, NoOptions,
                   requestIdCounter[p]),
           Call("removeItem", key))
    /\ UNCHANGED <<now, isBrowser, coreVars, toProxy, bcast, readVer, seenVer,
                   lastHit>>

clear(p) ==
    /\ Issued < MaxRequests
    /\ requestIdCounter' = [requestIdCounter EXCEPT ![p] = @ + 1]
    /\ cache' = [cache EXCEPT ![p] = <<>>]
    /\ sendRequest(p,
           Request("clear", Undefined, Undefined, NoOptions,
                   requestIdCounter[p]),
           Call("clear", Undefined))
    /\ UNCHANGED <<now, isBrowser, coreVars, toProxy, bcast, readVer, seenVer,
                   lastHit>>

keys(p) ==
    /\ Issued < MaxRequests
    /\ requestIdCounter' = [requestIdCounter EXCEPT ![p] = @ + 1]
    /\ sendRequest(p,
           Request("keys", Undefined, Undefined, NoOptions,
                   requestIdCounter[p]),
           Call("keys", Undefined))
    /\ UNCHANGED <<now, isBrowser, coreVars, toProxy, bcast, cache, readVer,
                   seenVer, lastHit>>

\* window 'message' listener: a response of the core arrives
WindowOnMessage(p) ==
    /\ toProxy[p] # <<>>
    /\ toProxy' = [toProxy EXCEPT ![p] = Tail(@)]
    /\ LET m == Head(toProxy[p])
           id == m.requestId
       IN IF coreState[p] = "ready" /\ id \in DOMAIN pendingRequests[p]
          THEN /\ pendingRequests' = [pendingRequests EXCEPT ![p] =
                      [i \in DOMAIN @ \ {id} |-> @[i]]]
               /\ promises' = [promises EXCEPT ![p][id + 1] =
                      IF m.error # NoError THEN "rejected" ELSE "resolved"]
               /\ IF pendingRequests[p][id].action = "getItem"
                     /\ m.error = NoError
                  THEN LET key == pendingRequests[p][id].key
                       IN /\ cache' = [cache EXCEPT ![p] =
                                  CacheSet(@, key, m.value)]
                          /\ readVer' = [readVer EXCEPT ![p][key] = m.hist.ver]
                  ELSE UNCHANGED <<cache, readVer>>
          ELSE UNCHANGED <<pendingRequests, promises, cache, readVer>>
    /\ UNCHANGED <<now, isBrowser, coreVars, toCore, bcast, coreState,
                   defaultOptions, requestQueue, requestIdCounter, channel,
                   iframe, seenVer, lastHit>>

\* channel.onmessage: a change event arrives
ChannelOnMessage(p) ==
    /\ bcast[p] # <<>>
    /\ bcast' = [bcast EXCEPT ![p] = Tail(@)]
    /\ LET e == Head(bcast[p])
       IN /\ cache' = [cache EXCEPT ![p] =
                 IF e.action \in {"set", "remove"}
                 THEN CacheDelete(@, e.key) ELSE @]
          /\ seenVer' = [seenVer EXCEPT ![p][e.key] =
                 IF e.by # p /\ e.ver > @ THEN e.ver ELSE @]
    /\ UNCHANGED <<now, isBrowser, coreVars, toCore, toProxy, coreState,
                   defaultOptions, requestQueue, pendingRequests,
                   requestIdCounter, channel, iframe, promises, readVer,
                   lastHit>>

(* ---------------------------- specification ---------------------------- *)
Next ==
    \/ \E p \in Origins, c \in InitConfigs : CallInit(p, c)
    \/ \E p \in Origins : IframeOnload(p)
    \/ \E p \in Origins : IframeOnerror(p)
    \/ \E p \in Origins, k \in LibKeys, v \in LibValues, o \in LibSetOptions :
           setItem(p, k, v, o)
    \/ \E p \in Origins, k \in LibKeys : getItem(p, k)
    \/ \E p \in Origins, k \in LibKeys : removeItem(p, k)
    \/ \E p \in Origins : clear(p)
    \/ \E p \in Origins : keys(p)
    \/ \E p \in Origins : WindowOnMessage(p)
    \/ \E p \in Origins : ChannelOnMessage(p)
    \/ \E p \in Origins : CoreReceive(p)
    \/ \E g \in coreGets : CoreGetDelete(g)
    \/ Tick

Spec == Init /\ [][Next]_vars

(* ------------- the whole system, with a transport that delivers -------- *)
\* The iframe of a proxy that is loading ends by loading or by failing;
\* the event loops deliver every message posted to the core's window and to
\* the page's window, and the core's pending db.delete completes.
Delivery ==
    /\ \A p \in Origins : WF_vars(IframeOnload(p) \/ IframeOnerror(p))
    /\ \A p \in Origins : WF_vars(CoreReceive(p))
    /\ \A p \in Origins : WF_vars(WindowOnMessage(p))
    /\ WF_vars(\E g \in coreGets : CoreGetDelete(g))

SpecLive == Init /\ [][Next]_vars /\ Delivery

(* ------------- the whole system, the applications using every key ------ *)
NextAllKeys ==
    \/ \E p \in Origins, c \in InitConfigs : CallInit(p, c)
    \/ \E p \in Origins : IframeOnload(p)
    \/ \E p \in Origins : IframeOnerror(p)
    \/ \E p \in Origins, k \in Keys, v \in LibValues : setItem(p, k, v, NoOptions)
    \/ \E p \in Origins, k \in Keys : getItem(p, k)
    \/ \E p \in Origins, k \in Keys : removeItem(p, k)
    \/ \E p \in Origins : clear(p)
    \/ \E p \in Origins : keys(p)
    \/ \E p \in Origins : WindowOnMessage(p)
    \/ \E p \in Origins : ChannelOnMessage(p)
    \/ \E p \in Origins : CoreReceive(p)

SpecAllKeys == Init /\ [][NextAllKeys]_vars

(* ------------- the whole system, with pages that post directly --------- *)
\* The page of origin p posts a request of its own making to the core's
\* window, with an id the library never allocates (one such request at a
\* time); the core answers it to the page, where the library's listener
\* sees the response.
PagePostsKeys(p) ==
    /\ coreState[p] = "ready"
    /\ toCore[p] = <<>> /\ toProxy[p] = <<>>
    /\ toCore' = [toCore EXCEPT ![p] =
           Append(@, Request("keys", Undefined, Undefined, NoOptions, -1))]
    /\ UNCHANGED <<now, isBrowser, coreVars, toProxy, bcast, libVars,
                   histVars>>

NextPage ==
    \/ Next
    \/ \E p \in Origins : PagePostsKeys(p)

SpecPage == Init /\ [][NextPage]_vars

(* ------------------------ the core on its own --------------------------- *)
\* Both pages have loaded the core and opened the channel; nothing has been
\* asked yet.
InitCore ==
    /\ store = <<>>
    /\ now = 0
    /\ coreGets = {}
    /\ tx = <<>>
    /\ toCore = [p \in Origins |-> <<>>]
    /\ toProxy = [p \in Origins |-> <<>>]
    /\ bcast = [p \in Origins |-> <<>>]
    /\ isBrowser = [p \in Origins |-> TRUE]
    /\ coreState = [p \in Origins |-> "ready"]
    /\ defaultOptions = [p \in Origins |-> NoOptions]
    /\ requestQueue = [p \in Origins |-> <<>>]
    /\ pendingRequests = [p \in Origins |-> <<>>]
    /\ requestIdCounter = [p \in Origins |-> 0]
    /\ cache = [p \in Origins |-> <<>>]
    /\ channel = [p \in Origins |-> TRUE]
    /\ iframe = [p \in Origins |-> "loaded"]
    /\ promises = [p \in Origins |-> <<>>]
    /\ wver = [k \in Keys |-> 0]
    /\ setBy = [k \in Keys |-> ""]
    /\ readVer = [p \in Origins |-> [k \in Keys |-> 0]]
    /\ seenVer = [p \in Origins |-> [k \in Keys |-> 0]]
    /\ lastHit = [p \in Origins |-> NoHit]

\* every response and every change event has been taken in
WireQuiet ==
    \A q \in Origins : toCore[q] = <<>> /\ toProxy[q] = <<>> /\ bcast[q] = <<>>

\* A 'message' event reaches the core's listener: the page of origin p has
\* posted a request of its own making, and has no getItem under way.
PostMessage(p, m) ==
    /\ WireQuiet
    /\ \A g \in coreGets : g.origin # p
    /\ CoreOnMessage(p, m)
    /\ UNCHANGED toCore

PostedRequests ==
    {Request("setItem", k, v, o, 0) : k \in Keys, v \in Values, o \in SetOptions}
        \cup {Request(a, k, Undefined, NoOptions, 0) :
                  a \in {"getItem", "removeItem"}, k \in Keys}
        \cup {Request(a, Undefined, Undefined, NoOptions, 0) :
                  a \in {"clear", "keys"}}

NextCore ==
    \/ \E p \in Origins, m \in PostedRequests : PostMessage(p, m)
    \/ \E g \in coreGets : CoreGetDelete(g)
    \/ \E p \in Origins : WindowOnMessage(p)
    \/ \E p \in Origins : ChannelOnMessage(p)
    \/ Tick

SpecCore == InitCore /\ [][NextCore]_vars

(* -------- the core on its own, its writes followed request by request --- *)
\* dbSet, dbRemove and dbClear each open one readwrite transaction on the
\* object store, read in it (store.get, store.iterate), decide, write
\* (store.put, store.delete, cursor.delete) and await tx.done.

\* Mutant: the requests of any open transaction run (no locking of the
\* object store between readwrite transactions).
txMayRunAny(i) == TRUE

\* The requests of a readwrite transaction run once every readwrite
\* transaction opened before it on the same object store has finished.
txMayRun(i) == i = 1

TxRequests ==
    {Request("setItem", k, v, o, 0) :
         k \in Keys, v \in LibValues,
         o \in {NoOptions} \cup {[acl |-> c] : c \in AclChoices}}
        \cup {Request("removeItem", k, Undefined, NoOptions, 0) : k \in Keys}
        \cup {Request("clear", Undefined, Undefined, NoOptions, 0)}

\* db.transaction(STORE_NAME, 'readwrite'): the listener has taken a request
\* of the page of origin p, which has no other request under way.
TxOpen(p, m) ==
    /\ WireQuiet
    /\ \A i \in DOMAIN tx : tx[i].origin # p
    /\ tx' = Append(tx, [origin |-> p, request |-> m, read |-> FALSE,
                         seen |-> <<>>])
    /\ UNCHANGED <<now, isBrowser, store, coreGets, wver, setBy, wireVars,
                   libVars, histVars>>

\* `await store.get(key)` (the item under the key) or the cursor's scan (all
\* the records) completes: what the transaction has seen of the store.
TxRead(i) ==
    /\ i \in DOMAIN tx
    /\ ~tx[i].read
    /\ txMayRun(i)
    /\ tx' = [tx EXCEPT ![i].read = TRUE,
                        ![i].seen =
                            IF tx[i].request.action = "clear" THEN store
                            ELSE [k \in DOMAIN store \cap {tx[i].request.key}
                                     |-> store[k]]]
    /\ UNCHANGED <<now, isBrowser, store, coreGets, wver, setBy, wireVars,
                   libVars, histVars>>

\* What dbSet, dbRemove or dbClear decides from what its transaction has
\* seen.
TxOutcome(t) ==
    CASE t.request.action = "setItem" ->
             dbSet(t.seen, t.request.key, t.request.value, t.request.options,
                   t.origin, now)
      [] t.request.action = "removeItem" ->
             dbRemove(t.seen, t.request.key, t.origin)
      [] t.request.action = "clear" -> dbClear(t.seen, t.origin)

\* The permission check on what was read, the put or the deletes, tx.done,
\* then the broadcast and the response (the error response if it threw).
TxCommit(i) ==
    /\ i \in DOMAIN tx
    /\ tx[i].read
    /\ txMayRun(i)
    /\ LET t == tx[i]
           r == TxOutcome(t)
           put == {r.events[j].key : j \in {j \in DOMAIN r.events :
                                                r.events[j].action = "set"}}
           del == {r.events[j].key : j \in {j \in DOMAIN r.events :
                                                r.events[j].action = "remove"}}
       IN /\ store' = [k \in (DOMAIN store \ del) \cup put |->
                          IF k \in put THEN r.store[k] ELSE store[k]]
          /\ wver' = IF put # {} THEN CountSet(wver, t.request.key) ELSE wver
          /\ setBy' = Setters(store',
                              [k \in Keys |->
                                  IF k \in put THEN t.origin ELSE setBy[k]])
          /\ Publish(r.events, wver', t.origin)
          /\ Respond(t.origin,
                     Response(t.request.requestId, Undefined, <<>>, r.error,
                              [Hist(t.request.action, t.request.key,
                                    t.origin, store, now, wver)
                                  EXCEPT !.options = t.request.options]))
    /\ tx' = [j \in 1..(Len(tx) - 1) |-> IF j < i THEN tx[j] ELSE tx[j + 1]]
    /\ UNCHANGED <<now, isBrowser, coreGets, toCore, libVars, histVars>>

NextTx ==
    \/ \E p \in Origins, m \in TxRequests : TxOpen(p, m)
    \/ \E i \in DOMAIN tx : TxRead(i)
    \/ \E i \in DOMAIN tx : TxCommit(i)
    \/ \E p \in Origins : WindowOnMessage(p)
    \/ \E p \in Origins : ChannelOnMessage(p)

SpecTx == InitCore /\ [][NextTx]_vars

(* ------------- the core on its own, with a store that can fail ---------- *)
\* A 'clear' reaches the listener and its transaction aborts part-way.
PostMessageAborts(p, m, n) ==
    /\ WireQuiet
    /\ \A g \in coreGets : g.origin # p
    /\ CoreClearAborts(p, m, n)
    /\ UNCHANGED toCore

NextCoreAborts ==
    \/ NextCore
    \/ \E p \in Origins, n \in 1..Len(KeyOrder) :
           PostMessageAborts(
               p, Request("clear", Undefined, Undefined, NoOptions, 0), n)

SpecCoreAborts == InitCore /\ [][NextCoreAborts]_vars

(* ======================================================================= *)
(*                               properties                                *)
(* ======================================================================= *)
\* A response is posted to p in this step; Reply(p) is that response.
Reply(p) == toProxy'[p][Len(toProxy'[p])]
Replies(p) ==
    /\ Len(toProxy'[p]) = Len(toProxy[p]) + 1
    /\ SubSeq(toProxy'[p], 1, Len(toProxy[p])) = toProxy[p]

\* The core answers, in this step, a request of p for `action` in the
\* transaction that read the store (the deferred delete of dbGet is not one).
Answers(p, action) ==
    /\ Replies(p)
    /\ Reply(p).hist.action = action
    /\ coreGets' = coreGets

\* The change events posted to the channel of q in this step, as ChangeEvents.
Emitted(q) ==
    [i \in 1..(Len(bcast'[q]) - Len(bcast[q])) |->
        ChangeEvent(bcast'[q][Len(bcast[q]) + i].key,
                    bcast'[q][Len(bcast[q]) + i].action)]

\* the origin, or the wildcard, is in the list
Names(aclList, origin) == Wildcard \in aclList \/ origin \in aclList
\* the item's expiresAt has passed
Lapsed(item) == item.expiresAt # 0 /\ now > item.expiresAt

RangeOf(seq) == {seq[i] : i \in DOMAIN seq}

(* ------------------------------------------------------------------ C1 *)
\* C1: a set(k) by an origin that the stored item's acl.write does not name
\* (as after another tenant created k with the default ACL) is answered with
\* a write-permission error and leaves the whole store as it was, with no
\* change event; and whenever the item under a key is replaced by another
\* item, the step is a set of that key by an origin that the replaced item's
\* acl.write names.
C1_SetNeedsWritePermission ==
    [][/\ \A p \in Origins :
             (/\ Answers(p, "setItem")
              /\ Reply(p).hist.key \in DOMAIN store
              /\ ~Names(store[Reply(p).hist.key].acl.write, p))
             => /\ store' = store
                /\ bcast' = bcast
                /\ Reply(p).error
                       = PermissionError("write", p, Reply(p).hist.key)
       /\ \A k \in DOMAIN store \cap DOMAIN store' :
             store'[k] # store[k]
             => \E p \in Origins :
                    /\ Answers(p, "setItem")
                    /\ Reply(p).hist.key = k
                    /\ Reply(p).error = NoError
                    /\ Names(store[k].acl.write, p)]_vars

\* "a" holds x with the default ACL and "b" has just been refused a set of x
C1_Witness ==
    /\ "x" \in DOMAIN store
    /\ setBy["x"] = "a"
    /\ store["x"].acl = [read |-> {Wildcard}, write |-> {"a"}]
    /\ \E i \in DOMAIN toProxy["b"] :
           /\ toProxy["b"][i].hist.action = "setItem"
           /\ toProxy["b"][i].hist.key = "x"
           /\ toProxy["b"][i].error = PermissionError("write", "b", "x")

(* ------------------------------------------------------------------ C2 *)
\* C2: a get(k) by p of a stored item whose expiresAt has not passed is
\* answered at once, with the item's value when its acl.read names p or the
\* wildcard and otherwise with a read-permission error and no value; either
\* way the store is unchanged and no change event is posted.  (Only an item
\* whose expiresAt has passed sends dbGet on to its delete.)
C2_GetChecksReadPermission ==
    [][/\ \A p \in Origins :
             (/\ Answers(p, "getItem")
              /\ Reply(p).hist.key \in DOMAIN store)
             => LET item == store[Reply(p).hist.key]
                IN /\ ~Lapsed(item)
                   /\ store' = store
                   /\ bcast' = bcast
                   /\ IF Names(item.acl.read, p)
                      THEN /\ Reply(p).error = NoError
                           /\ Reply(p).value = item.value
                      ELSE /\ Reply(p).error
                                 = PermissionError("read", p,
                                                   Reply(p).hist.key)
                           /\ Reply(p).value = Undefined
       /\ \A g \in coreGets' \ coreGets :
             g.key \in DOMAIN store /\ Lapsed(store[g.key])]_vars

\* "b" has just been refused the live item x, which only "a" may read
C2_Witness ==
    /\ "x" \in DOMAIN store
    /\ store["x"].acl.read = {"a"}
    /\ \E i \in DOMAIN toProxy["b"] :
           /\ toProxy["b"][i].hist.action = "getItem"
           /\ toProxy["b"][i].hist.key = "x"
           /\ toProxy["b"][i].hist.found = "live"
           /\ toProxy["b"][i].error = PermissionError("read", "b", "x")
           /\ toProxy["b"][i].value = Undefined

(* ------------------------------------------------------------------ C4 *)
\* C4: a get(k) that reads an item whose expiresAt has passed is never
\* answered from that read (so no permission error, whoever asks): it goes
\* on to its delete, and the delete leaves k absent and every other item as
\* it was, answers the request with null and no error, and posts exactly one
\* change event, {k, remove}, on every open channel.
C4_ExpiredGetDeletesAndAnnounces ==
    [][/\ \A p \in Origins :
             (/\ Answers(p, "getItem")
              /\ Reply(p).hist.key \in DOMAIN store)
             => ~Lapsed(store[Reply(p).hist.key])
       /\ \A g \in coreGets' \ coreGets :
             /\ g.key \in DOMAIN store
             /\ Lapsed(store[g.key])
             /\ store' = store
             /\ toProxy' = toProxy
             /\ bcast' = bcast
       /\ \A g \in coreGets \ coreGets' :
             /\ DOMAIN store' = DOMAIN store \ {g.key}
             /\ \A k \in DOMAIN store' : store'[k] = store[k]
             /\ Replies(g.origin)
             /\ Reply(g.origin).requestId = g.requestId
             /\ Reply(g.origin).value = Null
             /\ Reply(g.origin).error = NoError
             /\ \A q \in Origins :
                   channel[q]
                   => Emitted(q) = <<ChangeEvent(g.key, "remove")>>]_vars

\* "b", whom the expired item did not let read, has been answered null, x is
\* gone and the removal is on its way to "b"
C4_Witness ==
    /\ "x" \notin DOMAIN store
    /\ \E i \in DOMAIN toProxy["b"] :
           /\ toProxy["b"][i].hist.action = "getItem"
           /\ toProxy["b"][i].hist.key = "x"
           /\ toProxy["b"][i].hist.found = "expired"
           /\ ~toProxy["b"][i].hist.mayRead
           /\ toProxy["b"][i].value = Null
           /\ toProxy["b"][i].error = NoError
    /\ \E i \in DOMAIN bcast["b"] :
           bcast["b"][i].key = "x" /\ bcast["b"][i].action = "remove"

(* ------------------------------------------------------------------ C5 *)
\* C5: a clear() by p deletes exactly the stored keys whose acl.write names
\* p or the wildcard and leaves every other item as it was; it is answered
\* without error, and on every open channel it posts one {key, remove} for
\* each deleted key and nothing else.
C5_ClearDeletesWritableOnly ==
    [][\A p \in Origins :
          Answers(p, "clear")
          => LET gone == {k \in DOMAIN store : Names(store[k].acl.write, p)}
             IN /\ DOMAIN store' = DOMAIN store \ gone
                /\ \A k \in DOMAIN store' : store'[k] = store[k]
                /\ Reply(p).error = NoError
                /\ \A q \in Origins :
                      channel[q]
                      => /\ Len(Emitted(q)) = Cardinality(gone)
                         /\ RangeOf(Emitted(q))
                              = {ChangeEvent(k, "remove") : k \in gone}]_vars

\* a clear of "a" has removed x and left y, which "a" may not write
C5_Witness ==
    /\ "x" \notin DOMAIN store
    /\ "y" \in DOMAIN store
    /\ ~Names(store["y"].acl.write, "a")
    /\ \E i \in DOMAIN toProxy["a"] : toProxy["a"][i].hist.action = "clear"
    /\ \E i \in DOMAIN bcast["a"] :
           bcast["a"][i].key = "x" /\ bcast["a"][i].action = "remove"

(* ------------------------------------------------------------------ C6 *)
\* C6: a remove(k) of a key that is not in the store is answered without
\* error, whoever asks, leaves the store as it was and posts no change
\* event.
C6_RemoveAbsentIsNoOp ==
    [][\A p \in Origins :
          (/\ Answers(p, "removeItem")
           /\ Reply(p).hist.key \notin DOMAIN store)
          => /\ Reply(p).error = NoError
             /\ Reply(p).value = Undefined
             /\ store' = store
             /\ bcast' = bcast]_vars

\* a removal of the absent x has been answered; y is still there
C6_Witness ==
    /\ "x" \notin DOMAIN store
    /\ "y" \in DOMAIN store
    /\ \E p \in Origins : \E i \in DOMAIN toProxy[p] :
           /\ toProxy[p][i].hist.action = "removeItem"
           /\ toProxy[p][i].hist.key = "x"
           /\ toProxy[p][i].hist.found = "absent"
           /\ toProxy[p][i].error = NoError
    /\ \A q \in Origins : bcast[q] = <<>>

(* ------------------------------------------------------------------ C7 *)
\* The keys listed in the response posted to p in this step.
Listed(p) == RangeOf(Reply(p).keys)

\* C7 as claimed: keys() by the origin that set k with a TTL does not list k
\* once the TTL has elapsed.
C7_KeysHidesExpired ==
    [][\A p \in Origins :
          Answers(p, "keys")
          => \A k \in DOMAIN store :
                (setBy[k] = p /\ Lapsed(store[k])) => k \notin Listed(p)]_vars

\* C7, amended: keys() lists no key that is absent from the store (so not k
\* once a get(k) has deleted the expired item), but for as long as the
\* expired item is in the store, keys() by the origin that set it lists k
\* exactly when the item's acl.read names that origin or the wildcard.
C7_KeysListsExpiredUntilEvicted ==
    [][\A p \in Origins :
          Answers(p, "keys")
          => /\ Listed(p) \subseteq DOMAIN store
             /\ store' = store
             /\ \A k \in DOMAIN store :
                   (setBy[k] = p /\ Lapsed(store[k]))
                   => (k \in Listed(p) <=> Names(store[k].acl.read, p))]_vars

\* keys() of "a" has listed x, which "a" set and whose TTL has elapsed
C7_Witness ==
    /\ "x" \in DOMAIN store
    /\ setBy["x"] = "a"
    /\ Lapsed(store["x"])
    /\ \E i \in DOMAIN toProxy["a"] :
           /\ toProxy["a"][i].hist.action = "keys"
           /\ "x" \in RangeOf(toProxy["a"][i].keys)

(* ------------------------------------------------------------------ C8 *)
\* C8 as claimed: a set(k) by p that finds an item whose expiresAt has passed
\* succeeds as a creation by p: no error, and the new item's acl.write names
\* p.
C8_SetOnExpiredCreates ==
    [][\A p \in Origins :
          (/\ Answers(p, "setItem")
           /\ Reply(p).hist.key \in DOMAIN store
           /\ Lapsed(store[Reply(p).hist.key]))
          => /\ Reply(p).error = NoError
             /\ Reply(p).hist.key \in DOMAIN store'
             /\ p \in store'[Reply(p).hist.key].acl.write]_vars

(* ------------------------------------------------------------------ C3 *)
\* C3 as claimed: once a proxy has received the change event of another
\* proxy's set of x, no getItem(x) it calls returns a value read before that
\* set: what a getItem serves from the cache was read when at least as many
\* sets of the key had been committed as the proxy had been told of.
C3_NoStaleRead ==
    \A p \in Origins : lastHit[p].readVer >= lastHit[p].seenVer

(* ------------------------------------------------------------------ C9 *)
\* C9 as claimed: the reachability state never leaves 'failed'.
C9_FailedIsTerminal ==
    [][\A p \in Origins :
          coreState[p] = "failed" => coreState'[p] = "failed"]_vars

\* C9, amended: a step that takes the state out of 'failed' is an init() in
\* a browser: it takes it to 'initializing' with a new iframe loading, and
\* it is neither a call of setItem, getItem, removeItem, clear or keys (no
\* request id is allocated, no promise made, nothing served from the cache)
\* nor a transport event (no message is consumed or posted).
C9_FailedLeftOnlyByInit ==
    [][\A p \in Origins :
          (coreState[p] = "failed" /\ coreState'[p] # "failed")
          => /\ coreState'[p] = "initializing"
             /\ isBrowser[p]
             /\ iframe[p] # "loading" /\ iframe'[p] = "loading"
             /\ channel'[p]
             /\ UNCHANGED <<requestIdCounter, promises, lastHit, cache,
                            requestQueue, pendingRequests, wireVars,
                            coreVars>>]_vars

\* a proxy is initializing again after a failure that rejected a call
C9_Witness ==
    \E p \in Origins :
        /\ coreState[p] = "initializing"
        /\ "rejected" \in RangeOf(promises[p])

(* ----------------------------------------------------------------- C10 *)
\* C10: when the iframe errors, the state becomes 'failed', every call that
\* is in the pending map or in the queue is rejected, and the queue and the
\* map are left empty; a call made in the 'failed' state is rejected at once
\* and changes neither the queue, the map nor what is posted to the core; in
\* the 'failed' state the queue, the map and the cache are empty (so that no
\* getItem is served from the cache there).
C10_FailureRejectsAll ==
    [][\A p \in Origins :
          /\ (iframe[p] = "loading" /\ iframe'[p] = "errored")
             => /\ coreState'[p] = "failed"
                /\ requestQueue'[p] = <<>>
                /\ pendingRequests'[p] = <<>>
                /\ \A id \in DOMAIN pendingRequests[p]
                              \cup {requestQueue[p][j].requestId :
                                        j \in DOMAIN requestQueue[p]} :
                      /\ promises[p][id + 1] = "pending"
                      /\ promises'[p][id + 1] = "rejected"
          /\ (coreState[p] = "failed"
              /\ requestIdCounter'[p] # requestIdCounter[p])
             => /\ promises'[p] = Append(promises[p], "rejected")
                /\ coreState'[p] = "failed"
                /\ UNCHANGED <<requestQueue, pendingRequests, toCore>>
          /\ coreState[p] = "failed"
             => /\ requestQueue[p] = <<>>
                /\ pendingRequests[p] = <<>>
                /\ cache[p] = <<>>]_vars

\* the iframe of a proxy has failed and both calls made of it are rejected
C10_Witness ==
    \E p \in Origins :
        /\ coreState[p] = "failed"
        /\ iframe[p] = "errored"
        /\ promises[p] = <<"rejected", "rejected">>
        /\ requestQueue[p] = <<>>
        /\ pendingRequests[p] = <<>>

(* ----------------------------------------------------------------- C11 *)
\* the request ids of the messages grow along the sequence
Increasing(seq) ==
    \A i, j \in DOMAIN seq : i < j => seq[i].requestId < seq[j].requestId

\* C11: the requests a proxy has posted and not yet delivered, followed by
\* those it has queued, are in the order of their ids (the order of issue,
\* each once) and all issued already; nothing is posted while the state is
\* not 'ready'; the step that makes the state 'ready' posts the whole queue
\* in its order and leaves it empty; in the 'ready' state the queue is empty,
\* the state stays 'ready', and a request is only ever added after those
\* already posted.
C11_QueueDrainedInOrder ==
    [][\A p \in Origins :
          /\ Increasing(toCore[p] \o requestQueue[p])
          /\ \A i \in DOMAIN (toCore[p] \o requestQueue[p]) :
                (toCore[p] \o requestQueue[p])[i].requestId
                    < requestIdCounter[p]
          /\ (coreState[p] # "ready" /\ coreState'[p] # "ready")
             => toCore'[p] = toCore[p] /\ toCore[p] = <<>>
          /\ (coreState[p] # "ready" /\ coreState'[p] = "ready")
             => /\ toCore'[p] = toCore[p] \o requestQueue[p]
                /\ requestQueue'[p] = <<>>
          /\ coreState[p] = "ready"
             => /\ requestQueue[p] = <<>>
                /\ requestQueue'[p] = <<>>
                /\ coreState'[p] = "ready"
                /\ \/ toCore'[p] = toCore[p]
                   \/ toCore[p] # <<>> /\ toCore'[p] = Tail(toCore[p])
                   \/ /\ Len(toCore'[p]) = Len(toCore[p]) + 1
                      /\ SubSeq(toCore'[p], 1, Len(toCore[p])) = toCore[p]
                      /\ toCore'[p][Len(toCore'[p])].requestId
                             = requestIdCounter[p]]_vars

\* two requests that a proxy queued while initializing are on their way to
\* the core, the older first
C11_Witness ==
    \E p \in Origins :
        /\ coreState[p] = "ready"
        /\ Len(toCore[p]) = 2
        /\ toCore[p][1].requestId = 0 /\ toCore[p][2].requestId = 1
        /\ toCore[p][1].queued /\ toCore[p][2].queued

(* ----------------------------------------------------------------- C12 *)
\* C12 as claimed: a step that answers a request with an error changes no
\* stored item and posts no change event; and every change event posted is
\* that of a mutation the step commits: a remove of a key that leaves the
\* store, a set of a key that is in the store afterwards.
C12_FailedOperationIsSilent ==
    [][/\ \A p \in Origins :
             (Replies(p) /\ Reply(p).error # NoError)
             => store' = store /\ bcast' = bcast
       /\ \A q \in Origins : \A i \in DOMAIN Emitted(q) :
             IF Emitted(q)[i].action = "remove"
             THEN /\ Emitted(q)[i].key \in DOMAIN store
                  /\ Emitted(q)[i].key \notin DOMAIN store'
             ELSE Emitted(q)[i].key \in DOMAIN store']_vars

(* ----------------------------------------------------------------- C13 *)
\* C13: every call that allocates an id gets the next value of the counter,
\* which only grows, and one promise; a promise is pending exactly while its
\* id is in the pending map, and once settled it never changes.  When the
\* listener takes a response whose id is in the pending map, the response is
\* the core's answer to the request issued with that id, the promise of
\* that id and no other is settled (rejected if the response has an error,
\* resolved otherwise) and that entry alone leaves the map; when the id is
\* not in the map, nothing of the client's state changes.
C13_ResponseSettlesItsCall ==
    [][\A p \in Origins :
          /\ Len(promises[p]) = requestIdCounter[p]
          /\ \A i \in DOMAIN promises[p] :
                /\ promises[p][i] = "pending"
                      <=> (i - 1) \in DOMAIN pendingRequests[p]
                /\ promises[p][i] # "pending"
                      => promises'[p][i] = promises[p][i]
          /\ requestIdCounter'[p] \in
                 {requestIdCounter[p], requestIdCounter[p] + 1}
          /\ requestIdCounter'[p] # requestIdCounter[p]
             => /\ Len(promises'[p]) = Len(promises[p]) + 1
                /\ \A i \in DOMAIN promises[p] :
                      promises'[p][i] = promises[p][i]
                /\ DOMAIN pendingRequests'[p] \ DOMAIN pendingRequests[p]
                       \subseteq {requestIdCounter[p]}
          /\ (toProxy[p] # <<>> /\ toProxy'[p] = Tail(toProxy[p]))
             => LET m == Head(toProxy[p])
                    id == m.requestId
                IN IF id \in DOMAIN pendingRequests[p]
                   THEN /\ m.hist.action = pendingRequests[p][id].action
                        /\ m.hist.key = pendingRequests[p][id].key
                        /\ promises'[p] =
                              [promises[p] EXCEPT ![id + 1] =
                                  IF m.error # NoError
                                  THEN "rejected" ELSE "resolved"]
                        /\ DOMAIN pendingRequests'[p]
                              = DOMAIN pendingRequests[p] \ {id}
                        /\ \A i \in DOMAIN pendingRequests'[p] :
                              pendingRequests'[p][i] = pendingRequests[p][i]
                   ELSE UNCHANGED <<libVars, histVars>>]_vars

\* a proxy has had a call resolved by its response, and the answer to a
\* request of the page, whose id is in no pending map, is about to reach
\* its listener
C13_Witness ==
    \E p \in Origins :
        /\ "resolved" \in RangeOf(promises[p])
        /\ toProxy[p] # <<>>
        /\ Head(toProxy[p]).requestId \notin DOMAIN pendingRequests[p]

(* ----------------------------------------------------------------- C14 *)
\* C14: when every loading iframe ends by loading or failing and every
\* posted message is delivered, each call that has allocated an id and is
\* pending is settled in the end and its id is then out of the pending map.
C14_EveryCallSettles ==
    \A p \in Origins : \A i \in 1..MaxRequests :
        (i \in DOMAIN promises[p] /\ promises[p][i] = "pending")
            ~> (/\ i \in DOMAIN promises[p]
                /\ promises[p][i] \in {"resolved", "rejected"}
                /\ (i - 1) \notin DOMAIN pendingRequests[p])

\* both calls of a proxy, queued while it was initializing, have been
\* settled by their responses and the pending map is empty
C14_Witness ==
    \E p \in Origins :
        /\ Len(promises[p]) = MaxRequests
        /\ \A i \in DOMAIN promises[p] : promises[p][i] = "resolved"
        /\ pendingRequests[p] = <<>>
        /\ requestQueue[p] = <<>> /\ toCore[p] = <<>> /\ toProxy[p] = <<>>

(* ----------------------------------------------------------------- C15 *)
\* C15: whatever set, remove and clear requests are under way at once, when
\* one of them finishes it has decided on the items that are in the store
\* at that moment, and the store it leaves, the error or success it answers
\* and the change events it posts are those of the whole operation run at
\* that moment on the store: the operations take effect one after the other
\* in the order in which they finish.
C15_WritesAreSerialized ==
    [][\A i \in DOMAIN tx :
          (/\ Len(tx') = Len(tx) - 1
           /\ tx' = [j \in 1..(Len(tx) - 1) |->
                        IF j < i THEN tx[j] ELSE tx[j + 1]])
          => LET t == tx[i]
                 atomic == TxOutcome([t EXCEPT !.seen = store])
             IN /\ \A k \in DOMAIN t.seen : k \in DOMAIN store
                                              /\ store[k] = t.seen[k]
                /\ t.request.action # "clear"
                      => (t.request.key \in DOMAIN store
                             => t.request.key \in DOMAIN t.seen)
                /\ store' = atomic.store
                /\ Replies(t.origin)
                /\ Reply(t.origin).error = atomic.error
                /\ \A q \in Origins :
                      channel[q] => Emitted(q) = atomic.events]_vars

\* "b" asked to set x while a set of "a" was under way; "a" has finished
\* and left x with a write list that does not name "b", whose transaction
\* has not read yet
C15_Witness ==
    /\ Len(tx) = 1
    /\ tx[1].origin = "b" /\ ~tx[1].read
    /\ tx[1].request.action = "setItem" /\ tx[1].request.key = "x"
    /\ "x" \in DOMAIN store
    /\ ~Names(store["x"].acl.write, "b")
    /\ \E j \in DOMAIN toProxy["a"] :
           /\ toProxy["a"][j].hist.action = "setItem"
           /\ toProxy["a"][j].hist.key = "x"
           /\ toProxy["a"][j].error = NoError

(* ----------------------------------------------------------------- C16 *)
\* C16: a getItem served from the cache returns the value the cache holds
\* for the key and changes nothing of the library's state (counter, queue,
\* pending map, reachability state, cache, channel, iframe), posts nothing
\* and makes no promise wait; a call that registers a request has issued
\* it with the id it allocated, and at that step: keys leaves the cache as
\* it was; setItem and removeItem take their key, and no other, out of the
\* cache; clear leaves the cache empty; getItem had a key that the cache did
\* not hold, and leaves the cache as it was.
C16_CacheFrame ==
    [][\A p \in Origins :
          /\ lastHit'[p] # lastHit[p]
             => /\ lastHit'[p].key \in DOMAIN cache[p]
                /\ lastHit'[p].value = cache[p][lastHit'[p].key]
                /\ UNCHANGED <<libVars, wireVars, promises>>
          /\ (/\ requestIdCounter'[p] # requestIdCounter[p]
              /\ requestIdCounter[p] \in DOMAIN pendingRequests'[p])
             => LET call == pendingRequests'[p][requestIdCounter[p]]
                    sent == toCore'[p] \o requestQueue'[p]
                IN /\ sent # <<>>
                   /\ sent[Len(sent)].requestId = requestIdCounter[p]
                   /\ sent[Len(sent)].action = call.action
                   /\ sent[Len(sent)].key = call.key
                   /\ Len(sent) = Len(toCore[p] \o requestQueue[p]) + 1
                   /\ call.action \in {"keys", "getItem"}
                         => cache'[p] = cache[p]
                   /\ call.action = "getItem"
                         => call.key \notin DOMAIN cache[p]
                   /\ call.action \in {"setItem", "removeItem"}
                         => /\ DOMAIN cache'[p] = DOMAIN cache[p] \ {call.key}
                            /\ \A k \in DOMAIN cache'[p] :
                                  cache'[p][k] = cache[p][k]
                   /\ call.action = "clear" => cache'[p] = <<>>]_vars

\* a proxy has served y from its cache, and its setItem of x, not answered
\* yet, has left y in the cache
C16_Witness ==
    \E p \in Origins :
        /\ lastHit[p].key = "y"
        /\ "y" \in DOMAIN cache[p]
        /\ 1 \in DOMAIN pendingRequests[p]
        /\ pendingRequests[p][1].action = "setItem"
        /\ pendingRequests[p][1].key = "x"

(* ----------------------------------------------------------------- C17 *)
\* C17: a keys() by p is answered without error with the keys of the store
\* whose acl.read names p or the wildcard, each once and no other key (an
\* expired item's key among them), and the step changes no item of the
\* store and posts no change event.
C17_KeysExactAndReadOnly ==
    [][\A p \in Origins :
          Answers(p, "keys")
          => /\ Reply(p).error = NoError
             /\ Listed(p) = {k \in DOMAIN store : Names(store[k].acl.read, p)}
             /\ Len(Reply(p).keys) = Cardinality(Listed(p))
             /\ store' = store
             /\ bcast' = bcast]_vars

\* keys() of "b" has listed y and not x, which only "a" may read; both are
\* in the store
C17_Witness ==
    /\ {"x", "y"} \subseteq DOMAIN store
    /\ store["x"].acl.read = {"a"}
    /\ \E i \in DOMAIN toProxy["b"] :
           /\ toProxy["b"][i].hist.action = "keys"
           /\ toProxy["b"][i].keys = <<"y">>

(* ----------------------------------------------------------------- C18 *)
\* C18 as claimed: after a set by p that succeeds, creation or update and
\* whatever acl was supplied, the item's acl.write lets p write (it names p,
\* or the wildcard).
C18_WriterKeepsWriteAccess ==
    [][\A p \in Origins :
          (Answers(p, "setItem") /\ Reply(p).error = NoError)
          => /\ Reply(p).hist.key \in DOMAIN store'
             /\ Names(store'[Reply(p).hist.key].acl.write, p)]_vars

\* C18, amended: after a set by p that succeeds, the item's acl.write is
\* the acl.write of the options, or the list of p alone when the options
\* have none; p is added to it when the set created the item, and only
\* then: an update leaves exactly the list supplied, be it empty or
\* without p.
C18_WriterAddedOnCreationOnly ==
    [][\A p \in Origins :
          (Answers(p, "setItem") /\ Reply(p).error = NoError)
          => LET k == Reply(p).hist.key
                 o == Reply(p).hist.options
                 w == IF "acl" \in DOMAIN o /\ "write" \in DOMAIN o.acl
                      THEN o.acl.write ELSE {p}
             IN /\ k \in DOMAIN store'
                /\ store'[k].acl.write
                      = IF k \in DOMAIN store THEN w ELSE w \cup {p}]_vars

\* "a" has updated its item x with an empty write list: the set succeeded
\* and nobody, "a" included, may write x any more
C18_Witness ==
    /\ "x" \in DOMAIN store
    /\ setBy["x"] = "a"
    /\ store["x"].acl.write = {}
    /\ \E i \in DOMAIN toProxy["a"] :
           /\ toProxy["a"][i].hist.action = "setItem"
           /\ toProxy["a"][i].hist.key = "x"
           /\ toProxy["a"][i].hist.found # "absent"
           /\ toProxy["a"][i].error = NoError

(* ----------------------------------------------------------------- C19 *)
\* C19 as claimed: a set by p that succeeds on an item already in the store,
\* with options that have no acl, leaves the item's acl.read and acl.write
\* as they were.
C19_SetWithoutAclKeepsAcl ==
    [][\A p \in Origins :
          (/\ Answers(p, "setItem")
           /\ Reply(p).error = NoError
           /\ Reply(p).hist.key \in DOMAIN store
           /\ "acl" \notin DOMAIN Reply(p).hist.options)
          => store'[Reply(p).hist.key].acl
                = store[Reply(p).hist.key].acl]_vars

(* ----------------------------------------------------------------- C20 *)
\* C20 as claimed: when a get that has read an expired item performs its
\* delete, the item it removes from the store is one whose expiresAt has
\* passed at that moment: never an item that a set, already answered, has
\* put under the key since the get read.
C20_LazyDeleteOnlyExpired ==
    [][\A g \in coreGets \ coreGets' :
          g.key \in DOMAIN store => Lapsed(store[g.key])]_vars
====
